---- MODULE Spec2Model ----
(***************************************************************************)
(* The d-ary min-heap priority queue DHeap of                              *)
(* src/experiment/results/python_doctest_devstral-2512_code.py.            *)
(*                                                                         *)
(* An Item is a record [number, cost].  The Python list `heap` is a        *)
(* sequence; Python index i is position i+1 of the sequence (Get/Set do    *)
(* the shift), so every index in this module is the 0-based index of the   *)
(* source.  The dict `position_map` is a function whose DOMAIN is the key  *)
(* set.  An object of class DHeap is a record [d, heap, position_map];     *)
(* every method is an operator on that record, and every mutating method   *)
(* returns the record after the call.                                      *)
(***************************************************************************)
EXTENDS Integers, Sequences, FiniteSets, TLC

VARIABLES d, heap, position_map, op, outcome, held, balance

vars == <<d, heap, position_map, op, outcome, held, balance>>

\* Bounds of the model: identities are 1..MaxId, costs are 0..MaxCost.
MaxId == 4
MaxCost == 1

\* The arities the heap is exercised with.
Arities == {2, 3, 4, 8}

Ids == 1..MaxId
Costs == 0..MaxCost

\* class Item: identity (number) and priority (cost).
Item(number, cost) == [number |-> number, cost |-> cost]

Items == [number : Ids, cost : Costs]

\* Item.__eq__: items are equal if they have the same number.
ItemEq(a, b) == a.number = b.number

----------------------------------------------------------------------------
\* Python list and dict primitives, 0-based.

Get(h, i) == h[i + 1]

Set(h, i, v) == [h EXCEPT ![i + 1] = v]

\* list.pop(): the list without its last element.
DropLast(h) == SubSeq(h, 1, Len(h) - 1)

\* dict[k] = v
MapSet(m, k, v) == [x \in (DOMAIN m) \cup {k} |-> IF x = k THEN v ELSE m[x]]

\* del dict[k]
MapDel(m, k) == [x \in (DOMAIN m) \ {k} |-> m[x]]

EmptyMap == [x \in {} |-> 0]

\* The DHeap object made of the three fields.
Self == [d |-> d, heap |-> heap, position_map |-> position_map]

----------------------------------------------------------------------------
\* DHeap.__init__ for a valid arity.
DHeapNew(arity) == [d |-> arity, heap |-> <<>>, position_map |-> EmptyMap]

\* DHeap._parent
Parent(self, index) == (index - 1) \div self.d

\* A child range that starts at d*index, one slot early.
ChildrenFromSelf(self, index) ==
    LET start == self.d * index
        end == start + self.d
        stop == IF end < Len(self.heap) THEN end ELSE Len(self.heap)
    IN  start .. (stop - 1)

\* DHeap._children: range(start, min(end, len(heap)))
Children(self, index) ==
    LET start == self.d * index + 1
        end == start + self.d
        stop == IF end < Len(self.heap) THEN end ELSE Len(self.heap)
    IN  start .. (stop - 1)

\* A swap that overwrites slot i with slot j and never writes slot j: the
\* item that was at i is lost, the one at j is held twice.
SwapCopy(self, i, j) ==
    LET h1 == Set(self.heap, i, Get(self.heap, j))
        m1 == MapSet(self.position_map, Get(h1, i).number, i)
        m2 == MapSet(m1, Get(h1, j).number, j)
    IN  [self EXCEPT !.heap = h1, !.position_map = m2]

\* A swap that records the new index of one of the two items only.
SwapOneEntry(self, i, j) ==
    LET h1 == Set(Set(self.heap, i, Get(self.heap, j)), j, Get(self.heap, i))
        m1 == MapSet(self.position_map, Get(h1, i).number, i)
    IN  [self EXCEPT !.heap = h1, !.position_map = m1]

\* DHeap._swap: exchange the two slots, then the two map entries in turn.
Swap(self, i, j) ==
    LET h1 == Set(Set(self.heap, i, Get(self.heap, j)), j, Get(self.heap, i))
        m1 == MapSet(self.position_map, Get(h1, i).number, i)
        m2 == MapSet(m1, Get(h1, j).number, j)
    IN  [self EXCEPT !.heap = h1, !.position_map = m2]

\* A sift-up that also swaps when the two costs are equal.
RECURSIVE BubbleUpOnEqual(_, _)
BubbleUpOnEqual(self, index) ==
    IF index > 0
    THEN LET parent == Parent(self, index)
         IN  IF Get(self.heap, index).cost <= Get(self.heap, parent).cost
             THEN BubbleUpOnEqual(Swap(self, index, parent), parent)
             ELSE self
    ELSE self

\* A sift-up with `if` where the loop is: one comparison, at most one swap.
BubbleUpOnce(self, index) ==
    IF index > 0
    THEN LET parent == Parent(self, index)
         IN  IF Get(self.heap, index).cost < Get(self.heap, parent).cost
             THEN Swap(self, index, parent)
             ELSE self
    ELSE self

\* DHeap._bubble_up
RECURSIVE BubbleUp(_, _)
BubbleUp(self, index) ==
    IF index > 0
    THEN LET parent == Parent(self, index)
         IN  IF Get(self.heap, index).cost < Get(self.heap, parent).cost
             THEN BubbleUp(Swap(self, index, parent), parent)
             ELSE self
    ELSE self

\* A minimum search that keeps the last child of minimum cost, not the first.
MinChildLast(self, children) ==
    CHOOSE i \in children :
        \A j \in children :
            \/ Get(self.heap, i).cost < Get(self.heap, j).cost
            \/ Get(self.heap, i).cost = Get(self.heap, j).cost /\ i >= j

\* A sift-down that takes the first child instead of the cheapest one.
MinChildFirst(self, children) ==
    CHOOSE i \in children : \A j \in children : i <= j

\* DHeap._bubble_up: the number of swaps the loop makes.
RECURSIVE BubbleUpSwaps(_, _)
BubbleUpSwaps(self, index) ==
    IF index > 0
    THEN LET parent == Parent(self, index)
         IN  IF Get(self.heap, index).cost < Get(self.heap, parent).cost
             THEN 1 + BubbleUpSwaps(Swap(self, index, parent), parent)
             ELSE 0
    ELSE 0

\* min(children, key=cost): the first child of minimum cost.
MinChild(self, children) ==
    CHOOSE i \in children :
        \A j \in children :
            \/ Get(self.heap, i).cost < Get(self.heap, j).cost
            \/ Get(self.heap, i).cost = Get(self.heap, j).cost /\ i <= j

\* A sift-down with `if` where the loop is: one comparison, at most one
\* swap.
BubbleDownOnce(self, index) ==
    LET children == Children(self, index)
    IN  IF children = {}
        THEN self
        ELSE LET min_child == MinChild(self, children)
             IN  IF Get(self.heap, index).cost > Get(self.heap, min_child).cost
                 THEN Swap(self, index, min_child)
                 ELSE self

\* DHeap._bubble_down
RECURSIVE BubbleDown(_, _)
BubbleDown(self, index) ==
    LET children == Children(self, index)
    IN  IF children = {}
        THEN self
        ELSE LET min_child == MinChild(self, children)
             IN  IF Get(self.heap, index).cost > Get(self.heap, min_child).cost
                 THEN BubbleDown(Swap(self, index, min_child), min_child)
                 ELSE self

\* DHeap._bubble_down: the number of swaps the loop makes.
RECURSIVE BubbleDownSwaps(_, _)
BubbleDownSwaps(self, index) ==
    LET children == Children(self, index)
    IN  IF children = {}
        THEN 0
        ELSE LET min_child == MinChild(self, children)
             IN  IF Get(self.heap, index).cost > Get(self.heap, min_child).cost
                 THEN 1 + BubbleDownSwaps(Swap(self, index, min_child), min_child)
                 ELSE 0

----------------------------------------------------------------------------
\* The public methods as functions of the object.

\* A membership test on the whole Item, cost included, instead of on the
\* identity.
contains_by_value(self, item) ==
    \E i \in 1 .. Len(self.heap) : self.heap[i] = item

\* DHeap.contains
contains(self, item) == item.number \in DOMAIN self.position_map

\* DHeap.__len__
len(self) == Len(self.heap)

\* DHeap.is_empty
is_empty(self) == Len(self.heap) = 0

\* DHeap.front: <<>> is None, <<item>> the item returned.
front(self) == IF self.heap = <<>> THEN <<>> ELSE <<Get(self.heap, 0)>>

\* What a mutating method leaves behind: the object after the call, whether
\* the call raised ValueError, and the value returned (<<>> is None).
Result(self, raised, ret) == [self |-> self, raised |-> raised, ret |-> ret]

\* An insert whose duplicate test compares whole Items, cost included.
insert_dup_by_value(self, item) ==
    IF \E i \in 1 .. Len(self.heap) : self.heap[i] = item
    THEN Result(self, TRUE, <<>>)
    ELSE LET h1 == Append(self.heap, item)
             m1 == MapSet(self.position_map, item.number, Len(h1) - 1)
             s1 == [self EXCEPT !.heap = h1, !.position_map = m1]
         IN  Result(BubbleUp(s1, Len(h1) - 1), FALSE, <<>>)

\* DHeap.insert
insert(self, item) ==
    IF item.number \in DOMAIN self.position_map
    THEN Result(self, TRUE, <<>>)
    ELSE LET h1 == Append(self.heap, item)
             m1 == MapSet(self.position_map, item.number, Len(h1) - 1)
             s1 == [self EXCEPT !.heap = h1, !.position_map = m1]
         IN  Result(BubbleUp(s1, Len(h1) - 1), FALSE, <<>>)

\* A pop that forgets `del self.position_map[min_item.number]`.
pop_keeps_key(self) ==
    IF self.heap = <<>>
    THEN Result(self, FALSE, <<>>)
    ELSE LET min_item == Get(self.heap, 0)
             last_item == Get(self.heap, Len(self.heap) - 1)
             h1 == DropLast(self.heap)
             m1 == self.position_map
         IN  IF h1 # <<>>
             THEN LET h2 == Set(h1, 0, last_item)
                      m2 == MapSet(m1, last_item.number, 0)
                      s2 == [self EXCEPT !.heap = h2, !.position_map = m2]
                  IN  Result(BubbleDown(s2, 0), FALSE, <<min_item>>)
             ELSE Result([self EXCEPT !.heap = h1, !.position_map = m1],
                         FALSE, <<min_item>>)

\* A pop that moves the last element to the root and does not sift it down.
pop_no_sift(self) ==
    IF self.heap = <<>>
    THEN Result(self, FALSE, <<>>)
    ELSE LET min_item == Get(self.heap, 0)
             last_item == Get(self.heap, Len(self.heap) - 1)
             h1 == DropLast(self.heap)
             m1 == MapDel(self.position_map, min_item.number)
         IN  IF h1 # <<>>
             THEN LET h2 == Set(h1, 0, last_item)
                      m2 == MapSet(m1, last_item.number, 0)
                  IN  Result([self EXCEPT !.heap = h2, !.position_map = m2],
                             FALSE, <<min_item>>)
             ELSE Result([self EXCEPT !.heap = h1, !.position_map = m1],
                         FALSE, <<min_item>>)

\* A pop that copies the last element to the root and forgets to shrink the
\* list.
pop_no_shrink(self) ==
    IF self.heap = <<>>
    THEN Result(self, FALSE, <<>>)
    ELSE LET min_item == Get(self.heap, 0)
             last_item == Get(self.heap, Len(self.heap) - 1)
             m1 == MapDel(self.position_map, min_item.number)
             h2 == Set(self.heap, 0, last_item)
             m2 == MapSet(m1, last_item.number, 0)
             s2 == [self EXCEPT !.heap = h2, !.position_map = m2]
         IN  Result(BubbleDown(s2, 0), FALSE, <<min_item>>)

\* A pop that raises on an empty heap instead of returning None.
pop_empty_raises(self) ==
    IF self.heap = <<>>
    THEN Result(self, TRUE, <<>>)
    ELSE LET min_item == Get(self.heap, 0)
             last_item == Get(self.heap, Len(self.heap) - 1)
             h1 == DropLast(self.heap)
             m1 == MapDel(self.position_map, min_item.number)
         IN  IF h1 # <<>>
             THEN LET h2 == Set(h1, 0, last_item)
                      m2 == MapSet(m1, last_item.number, 0)
                      s2 == [self EXCEPT !.heap = h2, !.position_map = m2]
                  IN  Result(BubbleDown(s2, 0), FALSE, <<min_item>>)
             ELSE Result([self EXCEPT !.heap = h1, !.position_map = m1],
                         FALSE, <<min_item>>)

\* DHeap.pop
pop(self) ==
    IF self.heap = <<>>
    THEN Result(self, FALSE, <<>>)
    ELSE LET min_item == Get(self.heap, 0)
             last_item == Get(self.heap, Len(self.heap) - 1)
             h1 == DropLast(self.heap)
             m1 == MapDel(self.position_map, min_item.number)
         IN  IF h1 # <<>>
             THEN LET h2 == Set(h1, 0, last_item)
                      m2 == MapSet(m1, last_item.number, 0)
                      s2 == [self EXCEPT !.heap = h2, !.position_map = m2]
                  IN  Result(BubbleDown(s2, 0), FALSE, <<min_item>>)
             ELSE Result([self EXCEPT !.heap = h1, !.position_map = m1],
                         FALSE, <<min_item>>)

\* A priority increase that returns silently when the identity is absent.
increase_priority_absent_noop(self, item) ==
    IF item.number \notin DOMAIN self.position_map
    THEN Result(self, FALSE, <<>>)
    ELSE LET index == self.position_map[item.number]
         IN  IF item.cost < Get(self.heap, index).cost
             THEN LET s1 == [self EXCEPT !.heap[index + 1].cost = item.cost]
                  IN  Result(BubbleUp(s1, index), FALSE, <<>>)
             ELSE Result(self, TRUE, <<>>)

\* A priority increase that writes the cost and leaves the item where it is.
increase_priority_no_sift(self, item) ==
    IF item.number \notin DOMAIN self.position_map
    THEN Result(self, TRUE, <<>>)
    ELSE LET index == self.position_map[item.number]
         IN  IF item.cost < Get(self.heap, index).cost
             THEN Result([self EXCEPT !.heap[index + 1].cost = item.cost],
                         FALSE, <<>>)
             ELSE Result(self, TRUE, <<>>)

\* DHeap.increase_priority
increase_priority(self, item) ==
    IF item.number \notin DOMAIN self.position_map
    THEN Result(self, TRUE, <<>>)
    ELSE LET index == self.position_map[item.number]
         IN  IF item.cost < Get(self.heap, index).cost
             THEN LET s1 == [self EXCEPT !.heap[index + 1].cost = item.cost]
                  IN  Result(BubbleUp(s1, index), FALSE, <<>>)
             ELSE Result(self, TRUE, <<>>)

\* A priority decrease that accepts a new cost equal to the current one.
decrease_priority_allow_equal(self, item) ==
    IF item.number \notin DOMAIN self.position_map
    THEN Result(self, TRUE, <<>>)
    ELSE LET index == self.position_map[item.number]
         IN  IF item.cost >= Get(self.heap, index).cost
             THEN LET s1 == [self EXCEPT !.heap[index + 1].cost = item.cost]
                  IN  Result(BubbleDown(s1, index), FALSE, <<>>)
             ELSE Result(self, TRUE, <<>>)

\* DHeap.decrease_priority
decrease_priority(self, item) ==
    IF item.number \notin DOMAIN self.position_map
    THEN Result(self, TRUE, <<>>)
    ELSE LET index == self.position_map[item.number]
         IN  IF item.cost > Get(self.heap, index).cost
             THEN LET s1 == [self EXCEPT !.heap[index + 1].cost = item.cost]
                  IN  Result(BubbleDown(s1, index), FALSE, <<>>)
             ELSE Result(self, TRUE, <<>>)

\* pop() called again and again, nothing in between, until it returns None:
\* the elements returned, in the order returned.
RECURSIVE PopAll(_)
PopAll(self) ==
    LET r == pop(self)
    IN  IF r.ret = <<>> THEN <<>> ELSE <<r.ret[1]>> \o PopAll(r.self)

----------------------------------------------------------------------------
\* The state machine: one action per public method, each taking its argument
\* from Items.  d, heap and position_map are the fields of the one DHeap
\* object.  What the caller sees and keeps:
\*   op       the name of the last method called,
\*   outcome  what that call returned, or that it raised,
\*   held     the caller's own record of the queue, kept from the calls and
\*            their outcomes alone: identity -> cost of every element
\*            inserted and not yet popped, with its cost as last set by a
\*            priority change that succeeded,
\*   balance  the number of inserts that succeeded minus the number of pops
\*            that returned an element.

\* An action makes its call once: r, drawn from the one-element set, is the
\* Result of that call.

\* raised: the call raised ValueError; item: <<>> for None, else the Item
\* returned; flag: the bool returned; n: the int returned.
Outcome(raised, item, flag, n) ==
    [raised |-> raised, item |-> item, flag |-> flag, n |-> n]

Store(self) ==
    /\ d' = self.d
    /\ heap' = self.heap
    /\ position_map' = self.position_map

Init ==
    /\ \E arity \in Arities :
        /\ d = DHeapNew(arity).d
        /\ heap = DHeapNew(arity).heap
        /\ position_map = DHeapNew(arity).position_map
    /\ op = "init"
    /\ outcome = Outcome(FALSE, <<>>, FALSE, 0)
    /\ held = EmptyMap
    /\ balance = 0

DoInsert ==
    \E item \in Items :
        \E r \in {insert(Self, item)} :
            /\ Store(r.self)
            /\ op' = "insert"
            /\ outcome' = Outcome(r.raised, r.ret, FALSE, 0)
            /\ held' = IF r.raised THEN held
                       ELSE MapSet(held, item.number, item.cost)
            /\ balance' = IF r.raised THEN balance ELSE balance + 1

DoPop ==
    \E r \in {pop(Self)} :
        /\ Store(r.self)
        /\ op' = "pop"
        /\ outcome' = Outcome(r.raised, r.ret, FALSE, 0)
        /\ held' = IF r.ret = <<>> THEN held ELSE MapDel(held, r.ret[1].number)
        /\ balance' = IF r.ret = <<>> THEN balance ELSE balance - 1

\* A front() that takes the minimum out, as pop does.
DoFrontPops ==
    \E r \in {pop(Self)} :
        /\ Store(r.self)
        /\ op' = "front"
        /\ outcome' = Outcome(FALSE, r.ret, FALSE, 0)
        /\ UNCHANGED <<held, balance>>

DoFront ==
    /\ op' = "front"
    /\ outcome' = Outcome(FALSE, front(Self), FALSE, 0)
    /\ UNCHANGED <<d, heap, position_map, held, balance>>

DoContains ==
    \E item \in Items :
        /\ op' = "contains"
        /\ outcome' = Outcome(FALSE, <<>>, contains(Self, item), 0)
        /\ UNCHANGED <<d, heap, position_map, held, balance>>

DoIncreasePriority ==
    \E item \in Items :
        \E r \in {increase_priority(Self, item)} :
            /\ Store(r.self)
            /\ op' = "increase_priority"
            /\ outcome' = Outcome(r.raised, r.ret, FALSE, 0)
            /\ held' = IF r.raised THEN held
                       ELSE MapSet(held, item.number, item.cost)
            /\ UNCHANGED balance

DoDecreasePriority ==
    \E item \in Items :
        \E r \in {decrease_priority(Self, item)} :
            /\ Store(r.self)
            /\ op' = "decrease_priority"
            /\ outcome' = Outcome(r.raised, r.ret, FALSE, 0)
            /\ held' = IF r.raised THEN held
                       ELSE MapSet(held, item.number, item.cost)
            /\ UNCHANGED balance

DoLen ==
    /\ op' = "len"
    /\ outcome' = Outcome(FALSE, <<>>, FALSE, len(Self))
    /\ UNCHANGED <<d, heap, position_map, held, balance>>

DoIsEmpty ==
    /\ op' = "is_empty"
    /\ outcome' = Outcome(FALSE, <<>>, is_empty(Self), 0)
    /\ UNCHANGED <<d, heap, position_map, held, balance>>

Next ==
    \/ DoInsert
    \/ DoPop
    \/ DoFront
    \/ DoContains
    \/ DoIncreasePriority
    \/ DoDecreasePriority
    \/ DoLen
    \/ DoIsEmpty

Spec == Init /\ [][Next]_vars

----------------------------------------------------------------------------
\* The four methods that assign to heap or position_map, called in any
\* order.  front, contains, __len__ and is_empty assign to nothing, so a run
\* of all eight methods passes through the same objects as the run of
\* these four that is left when the other calls are struck out.

NextMutators ==
    \/ DoInsert
    \/ DoPop
    \/ DoIncreasePriority
    \/ DoDecreasePriority

SpecMutators == Init /\ [][NextMutators]_vars

----------------------------------------------------------------------------
\* Construction.  Before DHeap(d) has returned there is no object: d = 0 and
\* the other fields empty stand for that.  DHeap(d) is tried with the
\* arities of CtorArgs; a call that raises leaves no object behind.

CtorArgs == {-1, 0, 1} \cup Arities

NoObject == [d |-> 0, heap |-> <<>>, position_map |-> EmptyMap]

\* A constructor that rejects arities below 1 only.
DHeapInitFromOne(arity) ==
    IF arity < 1
    THEN Result(NoObject, TRUE, <<>>)
    ELSE Result(DHeapNew(arity), FALSE, <<>>)

\* DHeap.__init__
DHeapInit(arity) ==
    IF arity < 2
    THEN Result(NoObject, TRUE, <<>>)
    ELSE Result(DHeapNew(arity), FALSE, <<>>)

InitNoObject ==
    /\ d = NoObject.d
    /\ heap = NoObject.heap
    /\ position_map = NoObject.position_map
    /\ op = "none"
    /\ outcome = Outcome(FALSE, <<>>, FALSE, 0)
    /\ held = EmptyMap
    /\ balance = 0

\* DHeap(arity), called while there is no object.
DoNew ==
    /\ d = NoObject.d
    /\ \E arity \in CtorArgs :
           \E r \in {DHeapInit(arity)} :
               /\ Store(r.self)
               /\ op' = "__init__"
               /\ outcome' = Outcome(r.raised, r.ret, FALSE, 0)
               /\ UNCHANGED <<held, balance>>

\* The methods are called on an object that exists.
NextConstruct ==
    \/ DoNew
    \/ d # NoObject.d /\ Next

SpecConstruct == InitNoObject /\ [][NextConstruct]_vars

----------------------------------------------------------------------------
\* The caller's Item objects.  insert appends the very object it is given
\* (heap.append(item)), front returns the object at heap[0], and the priority
\* changes write the cost into the stored object in place, so every object
\* in heap is one the caller still holds and can write to.  pop takes the
\* object out of heap before returning it.

\* The caller assigns cost on an Item it passed to insert, or got from
\* front(), that is still in the heap: no method of DHeap runs.
DoCallerWrite ==
    \E i \in 0 .. (Len(heap) - 1) :
        \E c \in Costs :
            /\ heap' = [heap EXCEPT ![i + 1].cost = c]
            /\ op' = "caller_write"
            /\ outcome' = Outcome(FALSE, <<>>, FALSE, 0)
            /\ UNCHANGED <<d, position_map, held, balance>>

\* The caller assigns cost on the Item that pop() has just returned.
DoCallerWritePopped ==
    /\ op = "pop"
    /\ outcome.item # <<>>
    /\ \E c \in Costs :
           /\ outcome' = [outcome EXCEPT !.item[1].cost = c]
           /\ op' = "caller_write_popped"
           /\ UNCHANGED <<d, heap, position_map, held, balance>>

NextAlias ==
    \/ Next
    \/ DoCallerWrite
    \/ DoCallerWritePopped

SpecAlias == Init /\ [][NextAlias]_vars

----------------------------------------------------------------------------
\* Views of the state used by the properties.

Indices == 0 .. (Len(heap) - 1)

HeapIds == {Get(heap, i).number : i \in Indices}

HeapCosts == {Get(heap, i).cost : i \in Indices}

----------------------------------------------------------------------------
\* Heap order and map consistency of an object, as the methods leave it.
HeapOrderOf(self) ==
    \A i \in 1 .. (Len(self.heap) - 1) :
        Get(self.heap, (i - 1) \div self.d).cost <= Get(self.heap, i).cost

MapConsistencyOf(self) ==
    /\ DOMAIN self.position_map =
           {Get(self.heap, i).number : i \in 0 .. (Len(self.heap) - 1)}
    /\ \A i \in 0 .. (Len(self.heap) - 1) :
           self.position_map[Get(self.heap, i).number] = i

\* The indices i, parent(i), ..., 0.
RECURSIVE PathToRoot(_, _)
PathToRoot(self, i) ==
    IF i = 0 THEN {0} ELSE {i} \cup PathToRoot(self, Parent(self, i))

\* The indices of the subtree rooted at i: i and its descendants.
Subtree(self, i) ==
    {k \in 0 .. (Len(self.heap) - 1) : i \in PathToRoot(self, k)}

\* C1 (heap order): in every state reached from an empty DHeap(d), d in
\* {2, 3, 4, 8}, by any sequence of calls, successful or failing, every
\* non-root index i has heap[(i-1) div d].cost <= heap[i].cost.
HeapOrder ==
    /\ d \in {2, 3, 4, 8}
    /\ \A i \in 1 .. (Len(heap) - 1) :
           Get(heap, (i - 1) \div d).cost <= Get(heap, i).cost

\* A binary heap three levels deep (index 3 is a grandchild of the root),
\* holding both costs, right after a successful decrease_priority.
HeapOrderWitness ==
    /\ d = 2
    /\ op = "decrease_priority"
    /\ ~outcome.raised
    /\ Len(heap) >= 4
    /\ Get(heap, 0).cost < Get(heap, 3).cost

\* C2 (map consistency): after every public operation, position_map sends
\* the identity held at each index i to i, and its key set is exactly the
\* set of identities held in heap.
MapConsistency ==
    /\ DOMAIN position_map = HeapIds
    /\ \A i \in Indices : position_map[Get(heap, i).number] = i

\* Right after a pop that moved the last element to the root and sifted it
\* down: the root's cost is also the cost of an element further down.
MapConsistencyWitness ==
    /\ op = "pop"
    /\ outcome.item # <<>>
    /\ Len(heap) >= 3
    /\ Get(heap, 0).cost < Get(heap, Len(heap) - 1).cost

\* C3 (min correctness): whenever the heap is not empty, front() returns an
\* element that is held, with the cost it is held at, and that cost is <= the
\* cost of every element inserted and not yet popped (costs as last set by a
\* successful priority change).
MinCorrectness ==
    heap # <<>> =>
        /\ front(Self) # <<>>
        /\ front(Self)[1].number \in DOMAIN held
        /\ held[front(Self)[1].number] = front(Self)[1].cost
        /\ \A x \in DOMAIN held : front(Self)[1].cost <= held[x]

\* Right after a successful increase_priority that brought an element from
\* below to the root, above elements of higher cost.
MinCorrectnessWitness ==
    /\ op = "increase_priority"
    /\ ~outcome.raised
    /\ Len(heap) >= 3
    /\ Get(heap, 0).cost < Get(heap, 1).cost
    /\ \A i \in 1 .. (Len(heap) - 1) : Get(heap, 0).cost < Get(heap, i).cost

\* C4 (pop ordering): from any reachable state, popping until the heap is
\* empty returns costs in non-decreasing order and returns every held
\* element, at the cost it is held at, exactly once.
PopOrdering ==
    LET out == PopAll(Self)
    IN  /\ \A k \in 1 .. (Len(out) - 1) : out[k].cost <= out[k + 1].cost
        /\ Len(out) = Cardinality(DOMAIN held)
        /\ \A x \in DOMAIN held :
               \E k \in 1 .. Len(out) : out[k] = Item(x, held[x])

\* A pop has just returned an element and left at least three, laid out in
\* the list in an order that is not the order of their costs.
PopOrderingWitness ==
    /\ op = "pop"
    /\ outcome.item # <<>>
    /\ Len(heap) >= 3
    /\ \E i, j \in Indices : i < j /\ Get(heap, i).cost > Get(heap, j).cost

\* C5 (size law): len(pq) is the number of inserts that succeeded minus the
\* number of pops that returned an element (balance moves on those two
\* outcomes only, so every other call leaves len(pq) as it was); is_empty()
\* is true exactly when len(pq) = 0.
SizeLaw ==
    /\ len(Self) = balance
    /\ is_empty(Self) <=> (len(Self) = 0)
    /\ op = "len" => outcome.n = balance
    /\ op = "is_empty" => (outcome.flag <=> (balance = 0))

\* A pop has just returned an element and left two: at least three inserts
\* had succeeded before it.
SizeLawWitness ==
    /\ op = "pop"
    /\ outcome.item # <<>>
    /\ balance = 2
    /\ len(Self) = 2

\* C6 (membership round trip): contains(x) is true exactly for the
\* identities inserted and not yet returned by pop, whatever cost the query
\* Item carries: true from the successful insert of x on, false right after
\* the pop that returned x, false for an identity never inserted.
MembershipRoundTrip ==
    /\ \A q \in Items : contains(Self, q) <=> q.number \in DOMAIN held
    /\ (op = "pop" /\ outcome.item # <<>>) =>
           \A c \in Costs : ~contains(Self, Item(outcome.item[1].number, c))
    /\ (op = "contains" /\ outcome.flag) => heap # <<>>

\* contains() has just returned True on a heap that holds some identities
\* and not others.
MembershipRoundTripWitness ==
    /\ op = "contains"
    /\ outcome.flag
    /\ Len(heap) >= 1
    /\ Len(heap) < MaxId

\* C7 (duplicate rejection): insert of an Item whose identity is present
\* raises, for any cost on the new Item, and leaves heap and position_map as
\* they were.
DuplicateRejection ==
    \A item \in Items :
        item.number \in HeapIds =>
            LET r == insert(Self, item)
            IN  r.raised /\ r.self = Self

\* An insert has just raised on a heap of at least two elements.
DuplicateRejectionWitness ==
    /\ op = "insert"
    /\ outcome.raised
    /\ Len(heap) >= 2

\* C8 (direction enforcement): on a present identity, increase_priority
\* with a new cost >= the stored cost raises and decrease_priority with a
\* new cost <= the stored cost raises (equal cost raises in both), and the
\* failing call leaves heap and position_map as they were.
DirectionEnforcement ==
    \A i \in Indices :
        \A c \in Costs :
            LET item == Item(Get(heap, i).number, c)
            IN  /\ c >= Get(heap, i).cost =>
                       LET r == increase_priority(Self, item)
                       IN  r.raised /\ r.self = Self
                /\ c <= Get(heap, i).cost =>
                       LET r == decrease_priority(Self, item)
                       IN  r.raised /\ r.self = Self

\* decrease_priority has just raised while every identity was present, so
\* it raised on the direction of the change.
DirectionEnforcementWitness ==
    /\ op = "decrease_priority"
    /\ outcome.raised
    /\ HeapIds = Ids

\* C9 (not found): increase_priority and decrease_priority on an identity
\* that is not in the heap raise for any new cost, on an empty heap too, and
\* leave heap and position_map as they were.
NotFound ==
    \A item \in Items :
        item.number \notin HeapIds =>
            /\ LET r == increase_priority(Self, item)
               IN  r.raised /\ r.self = Self
            /\ LET r == decrease_priority(Self, item)
               IN  r.raised /\ r.self = Self

\* increase_priority has just raised on an empty heap.
NotFoundWitness ==
    /\ op = "increase_priority"
    /\ outcome.raised
    /\ heap = <<>>

\* C10 (empty is absence, not error): on a heap with no elements pop() and
\* front() return None without raising, is_empty() is true, and heap and
\* position_map stay empty after the call.
EmptyIsAbsence ==
    /\ heap = <<>> =>
           /\ pop(Self) = Result(Self, FALSE, <<>>)
           /\ front(Self) = <<>>
           /\ is_empty(Self)
           /\ DOMAIN position_map = {}
    /\ (op \in {"pop", "front"} /\ outcome.item = <<>>) =>
           /\ ~outcome.raised
           /\ heap = <<>>
           /\ DOMAIN position_map = {}

\* pop() has just returned None on a heap that pops had emptied.
EmptyIsAbsenceWitness ==
    /\ op = "pop"
    /\ outcome.item = <<>>
    /\ ~outcome.raised
    /\ heap = <<>>

\* C11 (construction): DHeap(d) raises for every d < 2 and for every
\* d >= 2 yields an empty heap of arity d; once the object exists no
\* operation changes d.
Construction ==
    /\ [](/\ \A arity \in CtorArgs :
                 LET r == DHeapInit(arity)
                 IN  /\ r.raised <=> arity < 2
                     /\ ~r.raised =>
                            /\ r.self.d = arity
                            /\ len(r.self) = 0
                            /\ DOMAIN r.self.position_map = {}
          /\ (op = "__init__" /\ outcome.raised) => d = NoObject.d
          /\ (op = "__init__" /\ ~outcome.raised) =>
                 /\ d >= 2
                 /\ len(Self) = 0
                 /\ DOMAIN position_map = {})
    /\ [][d # NoObject.d => d' = d]_vars

\* An object built with arity 3 on which inserts and a priority change have
\* since succeeded.
ConstructionWitness ==
    /\ d = 3
    /\ op = "decrease_priority"
    /\ ~outcome.raised
    /\ Len(heap) >= 3

\* C12 (element ownership): from its insert until the pop that returns it,
\* the cost the structure holds for an element is the one set by insert or
\* by the last successful priority change, whatever the caller writes to
\* its own Item objects, so heap order cannot be broken from outside.
ElementOwnership ==
    /\ \A i \in Indices :
           /\ Get(heap, i).number \in DOMAIN held
           /\ Get(heap, i).cost = held[Get(heap, i).number]
    /\ \A i \in 1 .. (Len(heap) - 1) :
           Get(heap, (i - 1) \div d).cost <= Get(heap, i).cost

\* C13 (contents refinement): read as the map identity -> cost, the heap is
\* at every step the reference map held: a successful insert adds one
\* entry, a successful priority change sets one, pop removes and returns the
\* entry at index 0, and every failing or read-only call changes nothing; no
\* element is lost, duplicated or re-priced by the sifts.
ContentsRefinement ==
    /\ Len(heap) = Cardinality(HeapIds)
    /\ HeapIds = DOMAIN held
    /\ \A i \in Indices : held[Get(heap, i).number] = Get(heap, i).cost
    /\ heap # <<>> => pop(Self).ret = <<Get(heap, 0)>>
    /\ (op = "pop" /\ outcome.item # <<>>) =>
           outcome.item[1].number \notin HeapIds

\* A 4-ary heap of three elements of two different costs, right after a
\* successful decrease_priority.
ContentsRefinementWitness ==
    /\ d = 4
    /\ op = "decrease_priority"
    /\ ~outcome.raised
    /\ Len(heap) = 3
    /\ Cardinality(HeapCosts) = 2

\* C14 (increase_priority success): for x at index i and a new cost
\* strictly below its stored cost the call succeeds, x holds the new cost
\* and ends at i or at an ancestor of i, the elements off the path
\* i, parent(i), ..., 0 keep their indices, and heap order and map
\* consistency hold on return.
IncreaseSuccess ==
    \A i \in Indices :
        \A c \in Costs :
            c < Get(heap, i).cost =>
                \A r \in {increase_priority(Self, Item(Get(heap, i).number, c))} :
                    /\ ~r.raised
                    /\ Len(r.self.heap) = Len(heap)
                    /\ \E j \in PathToRoot(Self, i) :
                           /\ Get(r.self.heap, j) = Item(Get(heap, i).number, c)
                           /\ r.self.position_map[Get(heap, i).number] = j
                    /\ \A k \in Indices \ PathToRoot(Self, i) :
                           Get(r.self.heap, k) = Get(heap, k)
                    /\ HeapOrderOf(r.self)
                    /\ MapConsistencyOf(r.self)

\* A binary heap of four right after a successful increase_priority: the
\* root is cheaper than the elements at indices 1 and 3, the path from
\* index 3 to the root.
IncreaseSuccessWitness ==
    /\ d = 2
    /\ op = "increase_priority"
    /\ ~outcome.raised
    /\ Len(heap) = 4
    /\ Get(heap, 0).cost < Get(heap, 1).cost
    /\ Get(heap, 0).cost < Get(heap, 3).cost

\* C15 (decrease_priority success): for x at index i and a new cost
\* strictly above its stored cost the call succeeds, x holds the new cost
\* and ends at i or at a descendant of i, the elements outside the subtree
\* rooted at i keep their indices, and heap order (over the whole heap) and
\* map consistency hold on return.
DecreaseSuccess ==
    \A i \in Indices :
        \A c \in Costs :
            c > Get(heap, i).cost =>
                \A r \in {decrease_priority(Self, Item(Get(heap, i).number, c))} :
                    /\ ~r.raised
                    /\ Len(r.self.heap) = Len(heap)
                    /\ \E j \in Subtree(Self, i) :
                           /\ Get(r.self.heap, j) = Item(Get(heap, i).number, c)
                           /\ r.self.position_map[Get(heap, i).number] = j
                    /\ \A k \in Indices \ Subtree(Self, i) :
                           Get(r.self.heap, k) = Get(heap, k)
                    /\ HeapOrderOf(r.self)
                    /\ MapConsistencyOf(r.self)

\* A binary heap of four right after a successful decrease_priority: the
\* element at index 3, two levels down, costs more than those at 1 and 2.
DecreaseSuccessWitness ==
    /\ d = 2
    /\ op = "decrease_priority"
    /\ ~outcome.raised
    /\ Len(heap) = 4
    /\ Get(heap, 3).cost > Get(heap, 1).cost
    /\ Get(heap, 3).cost > Get(heap, 2).cost

\* C16 (read-only operations): front(), contains(), len() and is_empty()
\* leave d, heap (order and stored costs) and position_map as they were, in
\* every state; what later calls return depends on those three only.
ReadOnlyOperations ==
    [][op' \in {"front", "contains", "len", "is_empty"} =>
           UNCHANGED <<d, heap, position_map>>]_vars

\* front() has just returned the root of a heap of at least two elements.
ReadOnlyOperationsWitness ==
    /\ op = "front"
    /\ Len(heap) >= 2
    /\ outcome.item = <<Get(heap, 0)>>

\* C17 (identity uniqueness): no two positions of heap hold the same
\* identity, and an identity that is not held, one that pop has returned
\* among them, can be inserted (again), at any cost.
IdentityUniqueness ==
    /\ \A i, j \in Indices :
           i # j => Get(heap, i).number # Get(heap, j).number
    /\ \A item \in Items :
           item.number \notin DOMAIN held =>
               \A r \in {insert(Self, item)} :
                   /\ ~r.raised
                   /\ Len(r.self.heap) = Len(heap) + 1
                   /\ item.number \in DOMAIN r.self.position_map
    /\ (op = "pop" /\ outcome.item # <<>>) =>
           outcome.item[1].number \notin DOMAIN held

\* pop() has just returned an element and left others behind; inserting the
\* identity it returned succeeds.
IdentityUniquenessWitness ==
    /\ op = "pop"
    /\ outcome.item # <<>>
    /\ Len(heap) >= 2
    /\ ~insert(Self, outcome.item[1]).raised

\* C18 (insert placement): a successful insert into a heap of size n puts
\* the new element on the path n, parent(n), ..., 0, at the first position
\* from n upwards that is the root or whose parent costs <= the new cost;
\* every ancestor it passes moves one level down, onto the path position
\* below it; every other element keeps its index; and when the new cost
\* equals the cost at parent(n) nothing is swapped.
InsertPlacement ==
    \A item \in Items :
        item.number \notin HeapIds =>
            \A r \in {insert(Self, item)} :
                \A path \in {PathToRoot(Self, Len(heap))} :
                    /\ ~r.raised
                    /\ Len(r.self.heap) = Len(heap) + 1
                    /\ \E j \in path :
                           /\ Get(r.self.heap, j) = item
                           /\ r.self.position_map[item.number] = j
                           /\ j = 0 \/ Get(heap, Parent(Self, j)).cost <= item.cost
                           /\ \A k \in path :
                                  k > j =>
                                      /\ Get(heap, Parent(Self, k)).cost > item.cost
                                      /\ Get(r.self.heap, k) = Get(heap, Parent(Self, k))
                           /\ \A k \in Indices :
                                  (k \notin path \/ k < j) =>
                                      Get(r.self.heap, k) = Get(heap, k)
                    /\ (/\ heap # <<>>
                        /\ Get(heap, Parent(Self, Len(heap))).cost = item.cost) =>
                           r.self.heap = Append(heap, item)

\* A binary heap of four right after a successful insert: the root is
\* cheaper than the elements at indices 1 and 3, the path the fourth element
\* is appended on.
InsertPlacementWitness ==
    /\ d = 2
    /\ op = "insert"
    /\ ~outcome.raised
    /\ Len(heap) = 4
    /\ Get(heap, 0).cost < Get(heap, 1).cost
    /\ Get(heap, 0).cost < Get(heap, 3).cost

\* The children of index i in a list h of arity dd, as C19 states them:
\* dd*i+1 .. min(dd*i+dd, len-1).
KidsOf(h, dd, i) ==
    (dd * i + 1) .. (IF dd * i + dd < Len(h) - 1 THEN dd * i + dd ELSE Len(h) - 1)

\* The lowest-index child among those of minimum cost.
LowestMinKid(h, kids) ==
    CHOOSE k \in kids :
        \A k2 \in kids :
            /\ Get(h, k).cost <= Get(h, k2).cost
            /\ Get(h, k2).cost = Get(h, k).cost => k <= k2

\* What the first sift-down step from index i leaves at index i of list h:
\* the lowest-index cheapest child if the element there costs strictly
\* more, the element itself otherwise.
AfterFirstStep(h, dd, i) ==
    LET kids == KidsOf(h, dd, i)
    IN  IF kids = {}
        THEN Get(h, i)
        ELSE LET m == Get(h, LowestMinKid(h, kids))
             IN  IF Get(h, i).cost > m.cost THEN m ELSE Get(h, i)

\* C19 (tie-break in sift-down): the children scanned at index i are
\* d*i+1 .. min(d*i+d, len-1); the child compared against is the
\* lowest-index one among those of minimum cost; a swap happens only when
\* the element costs strictly more than that child, in decrease_priority
\* and in pop alike.
SiftDownTieBreak ==
    /\ \A i \in Indices :
           \A kids \in {Children(Self, i)} :
               /\ kids = KidsOf(heap, d, i)
               /\ kids # {} => MinChild(Self, kids) = LowestMinKid(heap, kids)
    /\ \A i \in Indices :
           \A c \in Costs :
               c > Get(heap, i).cost =>
                   \A h1 \in {[heap EXCEPT ![i + 1].cost = c]} :
                       \A r \in {decrease_priority(Self, Item(Get(heap, i).number, c))} :
                           /\ Get(r.self.heap, i) = AfterFirstStep(h1, d, i)
                           /\ Get(r.self.heap, i) = Get(h1, i) => r.self.heap = h1
    /\ Len(heap) >= 2 =>
           \A h2 \in {Set(DropLast(heap), 0, Get(heap, Len(heap) - 1))} :
               \A r \in {pop(Self)} :
                   /\ Get(r.self.heap, 0) = AfterFirstStep(h2, d, 0)
                   /\ Get(r.self.heap, 0) = Get(h2, 0) => r.self.heap = h2

\* A ternary heap right after a successful decrease_priority in which the
\* element at index 1 costs more than the root and the one at index 2 costs
\* the same as the root: of two equally cheap children the first was taken.
SiftDownTieBreakWitness ==
    /\ d = 3
    /\ op = "decrease_priority"
    /\ ~outcome.raised
    /\ Len(heap) >= 3
    /\ Get(heap, 0).cost = Get(heap, 2).cost
    /\ Get(heap, 0).cost < Get(heap, 1).cost

\* The level of index i: the number of parent steps from i to the root.
RECURSIVE Level(_, _)
Level(self, i) == IF i = 0 THEN 0 ELSE 1 + Level(self, Parent(self, i))

\* C20 (termination): every public method returns in every reachable
\* state; a sift-up swap strictly lowers the working index and a sift-down
\* swap strictly raises it, one level at a time, so one call makes at most
\* as many swaps as the heap is deep.
Termination ==
    /\ \A i \in 1 .. Len(heap) :
           Parent(Self, i) >= 0 /\ Parent(Self, i) < i
    /\ \A i \in Indices : \A k \in Children(Self, i) : k > i
    /\ \A item \in Items :
           IF item.number \notin DOMAIN position_map
           THEN \A n \in {BubbleUpSwaps([Self EXCEPT !.heap = Append(heap, item)],
                                        Len(heap))} :
                    \A r \in {insert(Self, item)} :
                        /\ n <= Level(Self, Len(heap))
                        /\ n = Level(Self, Len(heap))
                                   - Level(Self, r.self.position_map[item.number])
           ELSE \A i \in {position_map[item.number]} :
                    \A s1 \in {[Self EXCEPT !.heap[i + 1].cost = item.cost]} :
                        /\ item.cost < Get(heap, i).cost =>
                               \A n \in {BubbleUpSwaps(s1, i)} :
                                   \A r \in {increase_priority(Self, item)} :
                                       /\ n <= Level(Self, i)
                                       /\ n = Level(Self, i)
                                                  - Level(Self, r.self.position_map[item.number])
                        /\ item.cost > Get(heap, i).cost =>
                               \A n \in {BubbleDownSwaps(s1, i)} :
                                   \A r \in {decrease_priority(Self, item)} :
                                       /\ n <= Level(Self, Len(heap) - 1) - Level(Self, i)
                                       /\ n = Level(Self, r.self.position_map[item.number])
                                                  - Level(Self, i)
    /\ Len(heap) >= 2 =>
           \A s2 \in {[Self EXCEPT
                          !.heap = Set(DropLast(heap), 0, Get(heap, Len(heap) - 1))]} :
               \A n \in {BubbleDownSwaps(s2, 0)} :
                   \A r \in {pop(Self)} :
                       /\ n <= Level(s2, Len(s2.heap) - 1)
                       /\ n = Level(s2, r.self.position_map[Get(s2.heap, 0).number])
    /\ Len(pop(Self).self.heap) <= Len(heap)
    /\ front(Self) = <<>> <=> heap = <<>>
    /\ len(Self) >= 0

\* A binary heap of four right after a successful insert whose element
\* went from index 3 to the root: two swaps, the depth of the heap.
TerminationWitness ==
    /\ d = 2
    /\ op = "insert"
    /\ ~outcome.raised
    /\ Len(heap) = 4
    /\ Level(Self, Len(heap) - 1) = 2
    /\ Get(heap, 0).cost < Get(heap, 1).cost
    /\ Get(heap, 0).cost < Get(heap, 2).cost
    /\ Get(heap, 0).cost < Get(heap, 3).cost

====
